---------------------------- MODULE Spec2Model ----------------------------
(***************************************************************************)
(* MarketPulse trend prediction (src/analysis/trend_prediction.py): the    *)
(* TrendPredictor object, its aggregation of sentiment records into a      *)
(* daily series, the Prophet fit with the linear baseline as fallback, the *)
(* forecast, and the orchestration of analyze_market_sentiment_trend.      *)
(*                                                                         *)
(* Numbers are exact rationals [n, d] (d > 0, lowest terms); NaN is the    *)
(* record with d = 0.  A timestamp is [day, tod]: a calendar day index and *)
(* a time of day (0 = midnight).  A DataFrame is a sequence of rows.       *)
(***************************************************************************)
EXTENDS Integers, Sequences, FiniteSets, TLC

VARIABLES model, model_type, training_df, last_train, analyses, call,
          pc, trend_results, returned, trend_summary, session, file, clock,
          log, runs

\* the state of a pipeline run (main.py, run_pipeline) and what outlives it
pipeVars ==
    <<pc, trend_results, returned, trend_summary, session, file, clock, log,
      runs>>

\* last_train is no field of the object: it is what the most recent call of
\* train_model on the predictor returned ("none" before the first)
vars ==
    <<model, model_type, training_df, last_train, analyses, call, pipeVars>>

(***************************************************************************)
(* Bounds of the model.                                                    *)
(***************************************************************************)
\* the most records in one call
MaxRecords == 3

\* the records of a call of analyze_market_sentiment_trend fall on the
\* calendar days 0..MaxDay; the clock reads day MaxDay
MaxDay == 2

\* the records of a call of prepare_data alone fall on the days 0..MaxAggDay
MaxAggDay == 4

\* the longest forecast asked for by number (None and 0 ask for the default)
MaxPeriods == 2

\* the most calls of analyze_market_sentiment_trend on one predictor;
\* analyses counts them
MaxAnalyses == 1

\* the most pipeline runs of one session; runs counts them
MaxRuns == 2

\* the most records of one pipeline run
MaxRunRecords == 2

(***************************************************************************)
(* Rational arithmetic.                                                    *)
(***************************************************************************)
Abs(k) == IF k < 0 THEN -k ELSE k

RECURSIVE GCD(_, _)
GCD(a, b) == IF b = 0 THEN a ELSE GCD(b, a % b)

Norm(n, d) ==
    LET s == IF d < 0 THEN -1 ELSE 1
        g == GCD(Abs(n), Abs(d))
    IN  [n |-> (s * n) \div g, d |-> (s * d) \div g]

R(n, d) == Norm(n, d)

RInt(k) == [n |-> k, d |-> 1]

NaN == [n |-> 0, d |-> 0]

IsNaN(q) == q.d = 0

RAdd(p, q) ==
    LET g == GCD(p.d, q.d)
    IN  Norm(p.n * (q.d \div g) + q.n * (p.d \div g), (p.d \div g) * q.d)

RNeg(p) == [n |-> -p.n, d |-> p.d]

RSub(p, q) == RAdd(p, RNeg(q))

RMul(p, q) ==
    LET g1 == GCD(Abs(p.n), q.d)
        g2 == GCD(Abs(q.n), p.d)
    IN  Norm((p.n \div g1) * (q.n \div g2), (p.d \div g2) * (q.d \div g1))

RInv(q) == Norm(q.d, q.n)

RDiv(p, q) == RMul(p, RInv(q))

RLt(p, q) ==
    LET g == GCD(p.d, q.d)
    IN  p.n * (q.d \div g) < q.n * (p.d \div g)

RLe(p, q) == ~RLt(q, p)

RMax(p, q) == IF RLt(p, q) THEN q ELSE p

RMin(p, q) == IF RLt(q, p) THEN q ELSE p

RECURSIVE RSum(_)
RSum(s) == IF s = <<>> THEN RInt(0) ELSE RAdd(Head(s), RSum(Tail(s)))

\* pandas/numpy mean of a non-empty sequence of numbers
RMean(s) == RDiv(RSum(s), RInt(Len(s)))

(***************************************************************************)
(* Input records.  kind says what the record's publish_time is:            *)
(*   "str"     a string whose first 10 characters are a date (day) and     *)
(*             whose rest (tod) is a time of day or nothing;               *)
(*   "bad"     a string strptime rejects ("", an RSS date, ...); day and   *)
(*             tod are the clock reading datetime.now() gives for it;      *)
(*   "missing" no publish_time key; day and tod are the clock reading;     *)
(*   "dt"      a datetime object (day, tod);                               *)
(*   "obj"     any other unhashable object (a list, a dict).               *)
(***************************************************************************)
NowDay == MaxDay

Days == 0..MaxAggDay

Tods == {0, 1}

AggScores == {R(0, 1), R(1, 10)}

Rec(k, d, t, s) == [kind |-> k, day |-> d, tod |-> t, score |-> s]

RecordUniverse ==
    {Rec("str", d, t, s) : d \in Days, t \in Tods, s \in AggScores}
    \cup {Rec("dt", d, t, s) : d \in Days, t \in Tods, s \in AggScores}
    \cup {Rec("bad", NowDay, t, s) : t \in Tods, s \in AggScores}
    \cup {Rec("missing", NowDay, 1, s) : s \in AggScores}
    \cup {Rec("obj", 0, 0, s) : s \in AggScores}

SeqsUpTo(S, n) == UNION {[1..k -> S] : k \in 0..n}

(***************************************************************************)
(* prepare_data                                                            *)
(***************************************************************************)
\* the date object of a record, a string that does not parse dated day 0
DateObjBadAtDayZero(rec) ==
    CASE rec.kind = "str" -> [day |-> rec.day, tod |-> 0]
      [] rec.kind = "missing" -> [day |-> rec.day, tod |-> 0]
      [] rec.kind = "bad" -> [day |-> 0, tod |-> 0]
      [] rec.kind = "dt" -> [day |-> rec.day, tod |-> rec.tod]
      [] OTHER -> [day |-> -1, tod |-> -1]

\* lines 38-48: the date object of one record
DateObj(rec) ==
    CASE rec.kind = "str" -> [day |-> rec.day, tod |-> 0]
      [] rec.kind = "missing" -> [day |-> rec.day, tod |-> 0]
      [] rec.kind = "bad" -> [day |-> rec.day, tod |-> rec.tod]
      [] rec.kind = "dt" -> [day |-> rec.day, tod |-> rec.tod]
      [] OTHER -> [day |-> -1, tod |-> -1]

\* lines 35-55: the frame of (ds, y) points, one per record, in input order
DataPoints(records) ==
    [i \in 1..Len(records) |->
        [ds |-> DateObj(records[i]), y |-> records[i].score]]

\* the y column of a sequence of rows
Ys(rows) == [i \in 1..Len(rows) |-> rows[i].y]

\* line 60: groupby('ds')['y'].mean(): one (ds, mean) per distinct timestamp
GroupByDs(points) ==
    LET keys == {points[i].ds : i \in 1..Len(points)}
    IN  {[ds |-> k, y |-> LET Same(p) == p.ds = k
                          IN  RMean(Ys(SelectSeq(points, Same)))] : k \in keys}

\* a set of rows as a sequence sorted by timestamp (sort_values('ds'))
RECURSIVE SortByDs(_)
SortByDs(S) ==
    IF S = {} THEN <<>>
    ELSE LET first == CHOOSE r \in S : \A o \in S :
                          \/ r.ds.day < o.ds.day
                          \/ r.ds.day = o.ds.day /\ r.ds.tod <= o.ds.tod
         IN  <<first>> \o SortByDs(S \ {first})

\* ResampleDaily without the daily grid: one row per timestamp, its day as ds
ResampleKeepsRows(sorted) ==
    [i \in 1..Len(sorted) |-> [ds |-> sorted[i].ds.day, y |-> sorted[i].y]]

\* lines 63-66: set_index('ds').resample('D').mean(): one row per calendar
\* day from the first to the last timestamp, the mean of the rows of the
\* day, NaN for a day with none
ResampleDaily(sorted) ==
    IF sorted = <<>> THEN <<>>
    ELSE LET lo == sorted[1].ds.day
             hi == sorted[Len(sorted)].ds.day
         IN  [i \in 1..(hi - lo + 1) |->
                LET OnDay(p) == p.ds.day = lo + i - 1
                    ys == Ys(SelectSeq(sorted, OnDay))
                IN  [ds |-> lo + i - 1,
                     y |-> IF ys = <<>> THEN NaN ELSE RMean(ys)]]

\* interpolate that holds the last known value over a gap
InterpolateHoldsLast(df) ==
    [i \in 1..Len(df) |->
        LET before == {j \in 1..i : ~IsNaN(df[j].y)}
        IN  IF before = {} THEN df[i]
            ELSE [df[i] EXCEPT !.y =
                     df[CHOOSE j \in before : \A k \in before : k <= j].y]]

\* line 67: interpolate(method='linear'): a NaN between two known values
\* lies on the line between its nearest known neighbours; a NaN after the
\* last known value takes it; a NaN before the first stays NaN
Interpolate(df) ==
    [i \in 1..Len(df) |->
        IF ~IsNaN(df[i].y) THEN df[i]
        ELSE LET before == {j \in 1..(i - 1) : ~IsNaN(df[j].y)}
                 after == {j \in (i + 1)..Len(df) : ~IsNaN(df[j].y)}
             IN  IF before = {} THEN df[i]
                 ELSE LET p == CHOOSE j \in before : \A k \in before : k <= j
                      IN  IF after = {} THEN [df[i] EXCEPT !.y = df[p].y]
                          ELSE LET q == CHOOSE j \in after :
                                            \A k \in after : j <= k
                                   step == RDiv(RSub(df[q].y, df[p].y),
                                                RInt(q - p))
                               IN  [df[i] EXCEPT !.y =
                                       RAdd(df[p].y,
                                            RMul(step, RInt(i - p)))]]

\* line 68: ffill(): a NaN takes the last known value before it
FFill(df) ==
    [i \in 1..Len(df) |->
        LET before == {j \in 1..i : ~IsNaN(df[j].y)}
        IN  IF before = {} THEN df[i]
            ELSE [df[i] EXCEPT !.y =
                     df[CHOOSE j \in before : \A k \in before : k <= j].y]]

\* line 69: bfill(): a NaN takes the first known value after it
BFill(df) ==
    [i \in 1..Len(df) |->
        LET after == {j \in i..Len(df) : ~IsNaN(df[j].y)}
        IN  IF after = {} THEN df[i]
            ELSE [df[i] EXCEPT !.y =
                     df[CHOOSE j \in after : \A k \in after : j <= k].y]]

\* line 60: hashing the group keys raises TypeError on an unhashable key
GroupByRaises(records) ==
    \E i \in 1..Len(records) : records[i].kind = "obj"

\* lines 21-73: prepare_data.  raised: an exception leaves the method.
PrepareData(records) ==
    IF records = <<>> THEN [raised |-> FALSE, df |-> <<>>]
    ELSE IF GroupByRaises(records) THEN [raised |-> TRUE, df |-> <<>>]
    ELSE [raised |-> FALSE,
          df |-> BFill(FFill(Interpolate(ResampleDaily(
                    SortByDs(GroupByDs(DataPoints(records)))))))]

(***************************************************************************)
(* Square roots.  residual_std is the square root of a rational; the model *)
(* keeps it to 4 decimals (rounded down), exact when the variance is 0.    *)
(***************************************************************************)
\* floor(n * 10^k / d) without forming n * 10^k
RECURSIVE ScaledFloor(_, _, _, _)
ScaledFloor(q, r, d, k) ==
    IF k = 0 THEN q
    ELSE ScaledFloor(q * 10 + (r * 10) \div d, (r * 10) % d, d, k - 1)

\* the largest k in lo..hi with k * k <= n
RECURSIVE ISqrt(_, _, _)
ISqrt(n, lo, hi) ==
    IF lo >= hi THEN lo
    ELSE LET mid == (lo + hi + 1) \div 2
         IN  IF mid * mid <= n THEN ISqrt(n, mid, hi)
             ELSE ISqrt(n, lo, mid - 1)

RSqrt(q) ==
    R(ISqrt(ScaledFloor(q.n \div q.d, q.n % q.d, q.d, 8), 0, 46340), 10000)

(***************************************************************************)
(* The linear baseline                                                     *)
(***************************************************************************)
\* np.polyfit(x, values, 1) with x = 0..len-1: the least-squares line
PolyFit1(values) ==
    LET len == Len(values)
        xs == [i \in 1..len |-> RInt(i - 1)]
        Sxy(xbar, ybar) == RSum([i \in 1..len |->
                  RMul(RSub(xs[i], xbar), RSub(values[i], ybar))])
        Sxx(xbar) == RSum([i \in 1..len |->
                  RMul(RSub(xs[i], xbar), RSub(xs[i], xbar))])
        Line(slope, xbar, ybar) ==
            [slope |-> slope, intercept |-> RSub(ybar, RMul(slope, xbar))]
        Fit(xbar, ybar) ==
            Line(RDiv(Sxy(xbar, ybar), Sxx(xbar)), xbar, ybar)
    IN  Fit(RMean(xs), RMean(values))

\* np.std(a): the population standard deviation
NpStd(a) ==
    LET Dev(mu) == RSqrt(RMean([i \in 1..Len(a) |->
                       RMul(RSub(a[i], mu), RSub(a[i], mu))]))
    IN  Dev(RMean(a))

\* line 16: self.model = None
NoModel == [kind |-> "none"]

\* _build_baseline_model if it never built a model
BuildBaselineModelNever(df) == NoModel

\* lines 150-169: _build_baseline_model
BuildBaselineModel(df) ==
    IF Len(df) < 2 THEN NoModel
    ELSE LET values == [i \in 1..Len(df) |-> df[i].y]
             Residuals(fit) == [i \in 1..Len(df) |->
                 RSub(values[i],
                      RAdd(fit.intercept, RMul(fit.slope, RInt(i - 1))))]
             Built(fit, residuals) ==
                 [kind |-> "baseline",
                  intercept |-> fit.intercept,
                  slope |-> fit.slope,
                  residual_std |-> IF Len(residuals) > 1
                                   THEN NpStd(residuals) ELSE RInt(0),
                  history |-> df]
             Fitted(fit) == Built(fit, Residuals(fit))
         IN  Fitted(PolyFit1(values))

\* the margin without its floor of 0.1
MarginNoFloor(residual_std) == RMul(residual_std, R(196, 100))

\* the margin as one residual_std, not 1.96 of them
MarginOneSigma(residual_std) == RMax(residual_std, R(1, 10))

\* line 182: margin = max(residual_std * 1.96, 0.1)
Margin(residual_std) == RMax(RMul(residual_std, R(196, 100)), R(1, 10))

\* one row of a forecast frame
ForecastRow(ds, yhat, lo, hi) ==
    [ds |-> ds, yhat |-> yhat, yhat_lower |-> lo, yhat_upper |-> hi]

\* _forecast_with_baseline if the time index of the future began at 0 again
ForecastWithBaselineFromZero(m, periods) ==
    LET hist == m.history
        len == Len(hist)
        margin == Margin(m.residual_std)
        Yhat(x) == RAdd(m.intercept, RMul(m.slope, RInt(x)))
        Row(ds, yhat) ==
            ForecastRow(ds, yhat, RSub(yhat, margin), RAdd(yhat, margin))
        history_forecast == [i \in 1..len |-> Row(hist[i].ds, Yhat(i - 1))]
        future_rows ==
            [k \in 1..periods |-> Row(hist[len].ds + k, Yhat(k - 1))]
    IN  [forecast |-> history_forecast \o future_rows,
         records |-> future_rows]

\* _forecast_with_baseline if the frame it returned held the future alone
ForecastWithBaselineFutureOnly(m, periods) ==
    LET margin == Margin(m.residual_std)
        Yhat(x) == RAdd(m.intercept, RMul(m.slope, RInt(x)))
        Row(ds, yhat) ==
            ForecastRow(ds, yhat, RSub(yhat, margin), RAdd(yhat, margin))
        future_rows ==
            [k \in 1..periods |->
                Row(m.history[Len(m.history)].ds + k,
                    Yhat(Len(m.history) + k - 1))]
    IN  [forecast |-> future_rows, records |-> future_rows]

\* lines 171-218: _forecast_with_baseline on a baseline model m: the combined
\* frame (history fit, then future) and the prediction records (future)
ForecastWithBaseline(m, periods) ==
    LET hist == m.history
        len == Len(hist)
        margin == Margin(m.residual_std)
        Yhat(x) == RAdd(m.intercept, RMul(m.slope, RInt(x)))
        Row(ds, yhat) ==
            ForecastRow(ds, yhat, RSub(yhat, margin), RAdd(yhat, margin))
        history_forecast == [i \in 1..len |-> Row(hist[i].ds, Yhat(i - 1))]
        last_date == hist[len].ds
        future_rows ==
            [k \in 1..periods |-> Row(last_date + k, Yhat(len + k - 1))]
    IN  [forecast |-> history_forecast \o future_rows,
         records |-> future_rows]

(***************************************************************************)
(* Direction and confidence                                                *)
(***************************************************************************)
\* DataFrame.tail(k): the last k rows (all of them if there are fewer)
Tail7(frame) ==
    IF Len(frame) <= 7 THEN frame
    ELSE SubSeq(frame, Len(frame) - 6, Len(frame))

\* _calculate_trend_direction with the thresholds themselves counted in
CalculateTrendDirectionInclusive(forecast) ==
    IF Len(forecast) < 2 THEN "neutral"
    ELSE LET recent == Tail7(forecast)
             Direction(slope) ==
                 IF RLe(R(1, 100), slope) THEN "positive"
                 ELSE IF RLe(slope, R(-1, 100)) THEN "negative"
                 ELSE "neutral"
         IN  Direction(
                 PolyFit1([i \in 1..Len(recent) |-> recent[i].yhat]).slope)

\* _calculate_trend_direction with the thresholds 1 and -1
CalculateTrendDirectionCoarse(forecast) ==
    IF Len(forecast) < 2 THEN "neutral"
    ELSE LET recent == Tail7(forecast)
             Direction(slope) ==
                 IF RLt(RInt(1), slope) THEN "positive"
                 ELSE IF RLt(slope, RInt(-1)) THEN "negative"
                 ELSE "neutral"
         IN  Direction(
                 PolyFit1([i \in 1..Len(recent) |-> recent[i].yhat]).slope)

\* lines 220-239: _calculate_trend_direction
CalculateTrendDirection(forecast) ==
    IF Len(forecast) < 2 THEN "neutral"
    ELSE LET recent == Tail7(forecast)
             Direction(slope) ==
                 IF RLt(R(1, 100), slope) THEN "positive"
                 ELSE IF RLt(slope, R(-1, 100)) THEN "negative"
                 ELSE "neutral"
         IN  Direction(
                 PolyFit1([i \in 1..Len(recent) |-> recent[i].yhat]).slope)

\* round(x, 3) that leaves x as it is
RoundNothing(q) == q

\* round(x, 3): to the nearest thousandth, a tie to the even one
Round3(q) ==
    LET fl == ScaledFloor(q.n \div q.d, q.n % q.d, q.d, 3)
        frac == RSub(RMul(q, RInt(1000)), RInt(fl))
        half == R(1, 2)
        k == IF RLt(frac, half) THEN fl
             ELSE IF RLt(half, frac) THEN fl + 1
             ELSE IF fl % 2 = 0 THEN fl ELSE fl + 1
    IN  R(k, 1000)

\* the confidence left as computed, not clamped
ClampNothing(x) == x

\* line 251: max(0.0, min(1.0, x))
Clamp01(x) == RMax(RInt(0), RMin(RInt(1), x))

\* lines 241-252: _calculate_confidence
CalculateConfidence(forecast) ==
    IF Len(forecast) < 2 THEN RInt(0)
    ELSE LET recent == Tail7(forecast)
             avg_uncertainty ==
                 RMean([i \in 1..Len(recent) |->
                     RSub(recent[i].yhat_upper, recent[i].yhat_lower)])
             raw == RSub(RInt(1), RDiv(avg_uncertainty, RInt(2)))
         IN  Round3(Clamp01(raw))

(***************************************************************************)
(* Prophet is an external library: whether fit raises, whether predict     *)
(* raises, and the forecast it gives are its choice.  A forecast is a line *)
(* level + slope * i with a band of half-width half around it.             *)
(***************************************************************************)
FitOutcomes == {"ok", "raises"}

ProphetShapes ==
    {[level |-> R(0, 1), slope |-> R(0, 1), half |-> R(0, 1)],
     [level |-> R(0, 1), slope |-> R(1, 20), half |-> R(1, 4)],
     [level |-> R(1, 2), slope |-> R(-1, 20), half |-> R(3, 2)],
     [level |-> R(0, 1), slope |-> R(1, 100), half |-> R(1, 2)]}

PredictOutcomes ==
    {[raises |-> TRUE, level |-> R(0, 1), slope |-> R(0, 1), half |-> R(0, 1)]}
    \cup {[raises |-> FALSE, level |-> sh.level, slope |-> sh.slope,
           half |-> sh.half] : sh \in ProphetShapes}

\* what Prophet does in one analysis: predict is reached only after a fit
Externals ==
    {[fit |-> "raises", pred |-> p] : p \in {q \in PredictOutcomes : q.raises}}
    \cup {[fit |-> "ok", pred |-> p] : p \in PredictOutcomes}

\* lines 131-133: make_future_dataframe(periods) and predict(future) on a
\* fitted model: the history's days and the periods days after them
ProphetForecast(m, periods, pred) ==
    LET len == Len(m.history)
        Row(ds, yhat) ==
            ForecastRow(ds, yhat, RSub(yhat, pred.half), RAdd(yhat, pred.half))
        forecast ==
            [i \in 1..(len + periods) |->
                Row(m.history[1].ds + i - 1,
                    RAdd(pred.level, RMul(pred.slope, RInt(i - 1))))]
    IN  [forecast |-> forecast,
         records |-> SubSeq(forecast, len + 1, len + periods)]

(***************************************************************************)
(* The messages of the error results (Chinese in the source).              *)
(***************************************************************************)
ErrNoData == "insufficient data, cannot predict the trend"

ErrTrainFailed == "model training failed"

ErrNotTrained == "model not trained"

ErrPredictFailed == "prediction failed"

\* Python's None, for an int argument
None == -1

\* line 18: self.forecast_periods
DefaultPeriods == 30

(***************************************************************************)
(* train_model, predict_trend, analyze_market_sentiment_trend: each as the *)
(* fields of the predictor after the call, what it returns, and the steps  *)
(* it took.                                                                *)
(***************************************************************************)
\* a test of emptiness that never finds a frame empty
EmptyNever(df) == FALSE

\* DataFrame.empty
Empty(df) == df = <<>>

\* df['ds'].nunique()
NUnique(df) == Cardinality({df[i].ds : i \in 1..Len(df)})

\* the guard of train_model without the count of distinct dates
TooFewDatesEmptyOnly(df) == Empty(df)

\* lines 85-86: too little data to train on
TooFewDates(df) == Empty(df) \/ NUnique(df) < 2

\* what a call of train_model returned, as last_train keeps it
Returned(ret) == IF ret THEN "True" ELSE "False"

\* train_model if the fallback stored the baseline and left model_type
TrainModelOpKeepsType(m, mt, tdf, df, fit) ==
    IF TooFewDates(df)
    THEN [model |-> m, model_type |-> mt, training_df |-> tdf,
          ret |-> FALSE, steps |-> <<>>]
    ELSE IF fit = "ok"
    THEN [model |-> [kind |-> "prophet", fitted |-> TRUE, history |-> df],
          model_type |-> "prophet", training_df |-> df,
          ret |-> TRUE, steps |-> <<"prophet_fit_ok">>]
    ELSE [model |-> BuildBaselineModel(df), model_type |-> mt,
          training_df |-> df, ret |-> TRUE,
          steps |-> <<"prophet_fit_raised", "build_baseline">>]

\* lines 75-112: train_model
TrainModelOp(m, mt, tdf, df, fit) ==
    IF TooFewDates(df)
    THEN [model |-> m, model_type |-> mt, training_df |-> tdf,
          ret |-> FALSE, steps |-> <<>>]
    ELSE IF fit = "ok"
    THEN [model |-> [kind |-> "prophet", fitted |-> TRUE, history |-> df],
          model_type |-> "prophet", training_df |-> df,
          ret |-> TRUE, steps |-> <<"prophet_fit_ok">>]
    ELSE LET steps == <<"prophet_fit_raised", "build_baseline">>
             \* lines 107-112: after _build_baseline_model has returned
             Fallback(baseline_model) ==
                 IF baseline_model.kind # "none"
                 THEN [model |-> baseline_model, model_type |-> "baseline",
                       training_df |-> df, ret |-> TRUE, steps |-> steps]
                 ELSE [model |-> [kind |-> "prophet", fitted |-> FALSE,
                                  history |-> <<>>],
                       model_type |-> mt, training_df |-> df,
                       ret |-> FALSE, steps |-> steps]
         IN  Fallback(BuildBaselineModel(df))

\* line 127: periods or self.forecast_periods
EffectivePeriods(periods) ==
    IF periods = None \/ periods = 0 THEN DefaultPeriods ELSE periods

\* lines 137-146: the result of a forecast
PredictionResult(fc, periods, mt) ==
    [predictions |-> fc.records,
     trend_direction |-> CalculateTrendDirection(fc.forecast),
     confidence |-> CalculateConfidence(fc.forecast),
     forecast_periods |-> periods,
     model_type |-> mt]

\* lines 129-146: what the try block of predict_trend computes: the forecast
\* frame and the result built from it
ForecastAndResult(fc, periods, mt) ==
    [forecast |-> fc.forecast, ret |-> PredictionResult(fc, periods, mt)]

(***************************************************************************)
(* The inputs of the calls.                                                *)
(***************************************************************************)
Periods == {None} \cup 0..MaxPeriods

ScoreSeq == <<R(-1, 1), R(1, 10)>>

\* the records of a run, oldest first: date strings with a score of either
\* sign, a string that does not parse, an object that is no date
RunUniverseSeq ==
    [i \in 1..(Len(ScoreSeq) * (MaxDay + 1)) |->
        Rec("str", (i - 1) \div Len(ScoreSeq), 0,
            ScoreSeq[((i - 1) % Len(ScoreSeq)) + 1])]
    \o <<Rec("bad", NowDay, 1, R(0, 1)), Rec("obj", 0, 0, R(0, 1))>>

\* one input per bag of at most MaxRecords records, in the universe's order
RunInputs ==
    UNION {{[i \in 1..k |-> RunUniverseSeq[f[i]]] :
              f \in {g \in [1..k -> 1..Len(RunUniverseSeq)] :
                        \A i \in 1..(k - 1) : g[i] <= g[i + 1]}} :
           k \in 0..MaxRecords}

\* a daily series on the line y = 2x + 1, without noise
LinearFrame ==
    [i \in 1..(MaxDay + 2) |-> [ds |-> i - 1, y |-> RInt(2 * i - 1)]]

\* the frames train_model is called with directly: series of prepare_data
\* and the series on a line
TrainFrames ==
    {PrepareData(r).df :
        r \in SeqsUpTo({Rec("str", 0, 0, R(0, 1)),
                        Rec("str", MaxDay, 0, R(1, 10))}, 2)}
    \cup {LinearFrame}

(***************************************************************************)
(* The forecasts of the models the inputs lead to, each computed once.     *)
(***************************************************************************)
RunFrames == {PrepareData(r).df : r \in RunInputs} \cup TrainFrames

FittedModels ==
    {TrainModelOp(NoModel, "prophet", <<>>, df, fit).model :
        df \in {f \in RunFrames : ~TooFewDates(f)}, fit \in FitOutcomes}

Horizons == {EffectivePeriods(p) : p \in Periods}

BaselineMemo ==
    [k \in {m \in FittedModels : m.kind = "baseline"} \X Horizons |->
        ForecastAndResult(ForecastWithBaseline(k[1], k[2]), k[2], "baseline")]
    @@ <<>>

ProphetMemo ==
    [k \in {m \in FittedModels : m.kind = "prophet"} \X Horizons
             \X {p \in PredictOutcomes : ~p.raises} |->
        ForecastAndResult(ProphetForecast(k[1], k[2], k[3]), k[2], "prophet")]
    @@ <<>>

\* lines 135-146 on a baseline model
BaselinePrediction(m, periods, mt) ==
    IF mt = "baseline" /\ <<m, periods>> \in DOMAIN BaselineMemo
    THEN BaselineMemo[<<m, periods>>]
    ELSE ForecastAndResult(ForecastWithBaseline(m, periods), periods, mt)

\* lines 131-146 on a fitted Prophet model whose predict does not raise
ProphetPrediction(m, periods, pred, mt) ==
    IF mt = "prophet" /\ <<m, periods, pred>> \in DOMAIN ProphetMemo
    THEN ProphetMemo[<<m, periods, pred>>]
    ELSE ForecastAndResult(ProphetForecast(m, periods, pred), periods, mt)

\* lines 114-148: predict_trend.  forecast is the frame the try block built
\* (empty when it built none).
PredictTrendOp(m, mt, periods_arg, pred) ==
    IF m.kind = "none"
    THEN [ret |-> [error |-> ErrNotTrained], forecast |-> <<>>,
          steps |-> <<>>]
    ELSE LET periods == EffectivePeriods(periods_arg)
             Failed(step) == [ret |-> [error |-> ErrPredictFailed],
                              forecast |-> <<>>, steps |-> <<step>>]
             Done(out, step) == [ret |-> out.ret, forecast |-> out.forecast,
                                 steps |-> <<step>>]
         IN  IF mt = "prophet"
             THEN IF m.kind = "prophet" /\ m.fitted /\ ~pred.raises
                  THEN Done(ProphetPrediction(m, periods, pred, mt),
                            "prophet_predict_ok")
                  ELSE Failed("prophet_predict_raised")
             ELSE IF m.kind = "baseline"
                  THEN Done(BaselinePrediction(m, periods, mt),
                            "forecast_with_baseline_ok")
                  ELSE Failed("forecast_with_baseline_raised")

\* lines 289-297: the analysis summary
AnalysisSummary(df, periods, prediction_result) ==
    [data_points |-> Len(df),
     forecast_periods |-> periods,
     trend_direction |-> prediction_result.trend_direction,
     confidence |-> prediction_result.confidence,
     predictions |-> prediction_result.predictions,
     historical_data |-> df,
     model_type |-> prediction_result.model_type]

\* lines 254-299: analyze_market_sentiment_trend
AnalyzeOp(m, mt, tdf, lt, records, periods, fit, pred) ==
    LET same == [model |-> m, model_type |-> mt, training_df |-> tdf,
                 last_train |-> lt]
        After(tr) == [model |-> tr.model, model_type |-> tr.model_type,
                      training_df |-> tr.training_df,
                      last_train |-> Returned(tr.ret)]
        \* lines 283-299: after predict_trend has returned pr
        Predicted(df, tr, pr) ==
            [after |-> After(tr), status |-> "returned",
             ret |-> IF "error" \in DOMAIN pr.ret THEN pr.ret
                     ELSE AnalysisSummary(df, periods, pr.ret),
             forecast |-> pr.forecast,
             steps |-> <<"prepare_data", "train_model">> \o tr.steps
                       \o <<"predict_trend">> \o pr.steps]
        \* lines 276-283: after train_model has returned tr
        Trained(df, tr) ==
            IF ~tr.ret
            THEN [after |-> After(tr), status |-> "returned",
                  ret |-> [error |-> ErrTrainFailed, data_points |-> Len(df)],
                  forecast |-> <<>>,
                  steps |-> <<"prepare_data", "train_model">> \o tr.steps]
            ELSE Predicted(df, tr, PredictTrendOp(tr.model, tr.model_type,
                                                  periods, pred))
        \* lines 269-276: after prepare_data has returned or raised
        Prepared(prep) ==
            IF prep.raised
            THEN [after |-> same, status |-> "raised",
                  ret |-> [exception |-> "TypeError"], forecast |-> <<>>,
                  steps |-> <<"prepare_data_raised">>]
            ELSE IF Empty(prep.df)
            THEN [after |-> same, status |-> "returned",
                  ret |-> [error |-> ErrNoData, data_points |-> 0],
                  forecast |-> <<>>,
                  steps |-> <<"prepare_data">>]
            ELSE Trained(prep.df, TrainModelOp(m, mt, tdf, prep.df, fit))
    IN  Prepared(PrepareData(records))

(***************************************************************************)
(* get_trend_summary and save_prediction_results.  A result is a dict: a   *)
(* function from its keys.  The sidecar file is absent, written (text is   *)
(* the JSON in it) or truncated (opened for writing, the dump cut short).  *)
(***************************************************************************)
\* dict.get(key, default)
Get(results, key, default) ==
    IF key \in DOMAIN results THEN results[key] ELSE default

RecPositive == "sentiment trends positive: watch for opportunities"

RecNegative == "sentiment trends negative: invest with caution"

RecNeutral == "sentiment is stable: wait and see"

\* a recommendation that does not look at the direction
RecommendationFixed(trend_direction) == RecNeutral

\* lines 340-345: the recommendation of a trend direction
Recommendation(trend_direction) ==
    IF trend_direction = "positive" THEN RecPositive
    ELSE IF trend_direction = "negative" THEN RecNegative
    ELSE RecNeutral

\* lines 320-355: get_trend_summary on a predictor whose model_type is mt
GetTrendSummaryOp(results, mt) ==
    IF "error" \in DOMAIN results
    THEN [status |-> "error", message |-> results.error]
    ELSE [status |-> "success",
          trend_direction |-> Get(results, "trend_direction", "neutral"),
          confidence |-> Get(results, "confidence", RInt(0)),
          recommendation |->
              Recommendation(Get(results, "trend_direction", "neutral")),
          data_points |-> Get(results, "data_points", 0),
          forecast_periods |-> Get(results, "forecast_periods", 0),
          model_type |-> Get(results, "model_type", mt)]

\* line 313: datetime.now().isoformat() when the clock reads t
GeneratedAt(t) == [iso |-> t]

\* line 313: results['generated_at'] = ...: the dict with the key set
Stamp(results, now) ==
    [k \in DOMAIN results \cup {"generated_at"} |->
        IF k = "generated_at" THEN GeneratedAt(now) ELSE results[k]]

\* line 316: json.dump(results, default=str): every ds, a timestamp, is
\* written as its string; numbers and strings are written as they are
JsonDump(results) ==
    [k \in DOMAIN results |->
        IF k \in {"predictions", "historical_data"}
        THEN [i \in DOMAIN results[k] |->
                 [results[k][i] EXCEPT !.ds = [str |-> @]]]
        ELSE results[k]]

Absent == [state |-> "absent"]

Truncated == [state |-> "truncated"]

\* a write that leaves a file that is already there as it is
WrittenFileKeepsOld(old, results) ==
    IF old.state = "written" THEN old
    ELSE [state |-> "written", text |-> JsonDump(results)]

\* lines 315-316: the file after open(file_path, 'w') and json.dump: the old
\* content is gone
WrittenFile(old, results) == [state |-> "written", text |-> JsonDump(results)]

\* what the file system does in one save: the write succeeds, mkdir raises
\* (line 310), open raises (line 315), or the dump raises (line 316)
SaveOutcomes == {"ok", "mkdir_raises", "open_raises", "write_raises"}

\* lines 301-318: save_prediction_results: the dict and the file after the
\* call, and whether an exception left it
SavePredictionResultsOp(results, old, now, outcome) ==
    IF outcome = "mkdir_raises"
    THEN [results |-> results, file |-> old, raised |-> TRUE]
    ELSE IF outcome = "open_raises"
    THEN [results |-> Stamp(results, now), file |-> old, raised |-> TRUE]
    ELSE IF outcome = "write_raises"
    THEN [results |-> Stamp(results, now), file |-> Truncated,
          raised |-> TRUE]
    ELSE [results |-> Stamp(results, now),
          file |-> WrittenFile(old, Stamp(results, now)), raised |-> FALSE]

\* a pipeline that persists whatever the analysis returned
ShouldPersistAlways(results) == TRUE

\* main.py line 202: if 'error' not in trend_results
ShouldPersist(results) == "error" \notin DOMAIN results

(***************************************************************************)
(* The predictor object after __init__.                                    *)
(***************************************************************************)
NoCall == [op |-> "none", status |-> "idle"]

InitPredictor ==
    /\ model = NoModel
    /\ model_type = "prophet"
    /\ training_df = <<>>
    /\ last_train = "none"
    /\ analyses = 0

(***************************************************************************)
(* Spec: one TrendPredictor and its caller.  The caller constructs the     *)
(* predictor, calls a method, and goes on once the call has returned or    *)
(* raised; call is the call it last made, until it goes on.               *)
(***************************************************************************)
\* no value: a local of run_pipeline outside a run, an empty session entry
Nothing == <<>>

\* main.py lines 110-111: the session before the first run, no file yet
InitPipeline ==
    /\ pc = "idle"
    /\ trend_results = Nothing
    /\ returned = Nothing
    /\ trend_summary = Nothing
    /\ session = [trend_results |-> Nothing, trend_summary |-> Nothing]
    /\ file = Absent
    /\ clock = 0
    /\ log = <<>>
    /\ runs = 0

Init ==
    /\ InitPredictor
    /\ call = NoCall
    /\ InitPipeline

\* lines 15-19: TrendPredictor()
NewPredictor ==
    /\ call = NoCall
    /\ model' = NoModel
    /\ model_type' = "prophet"
    /\ training_df' = <<>>
    /\ last_train' = "none"
    /\ analyses' = 0
    /\ UNCHANGED <<call, pipeVars>>

TrainModel(df, fit) ==
    /\ call = NoCall
    /\ \E out \in {TrainModelOp(model, model_type, training_df, df, fit)} :
           /\ model' = out.model
           /\ model_type' = out.model_type
           /\ training_df' = out.training_df
           /\ last_train' = Returned(out.ret)
           /\ call' = [op |-> "train_model", status |-> "returned",
                        df |-> df, fit |-> fit, ret |-> out.ret,
                        steps |-> out.steps]
    /\ UNCHANGED <<analyses, pipeVars>>

PredictTrend(periods, pred) ==
    /\ call = NoCall
    /\ \E out \in {PredictTrendOp(model, model_type, periods, pred)} :
           call' = [op |-> "predict_trend", status |-> "returned",
                    periods |-> periods, pred |-> pred, ret |-> out.ret,
                    forecast |-> out.forecast, steps |-> out.steps]
    /\ UNCHANGED <<model, model_type, training_df, last_train, analyses,
                   pipeVars>>

Analyze(records, periods, fit, pred) ==
    /\ call = NoCall
    /\ analyses < MaxAnalyses
    /\ analyses' = analyses + 1
    /\ \E out \in {AnalyzeOp(model, model_type, training_df, last_train,
                              records, periods, fit, pred)} :
           /\ model' = out.after.model
           /\ model_type' = out.after.model_type
           /\ training_df' = out.after.training_df
           /\ last_train' = out.after.last_train
           /\ call' = [op |-> "analyze", status |-> out.status,
                        records |-> records, periods |-> periods,
                        fit |-> fit, pred |-> pred,
                        before |-> [model |-> model,
                                    model_type |-> model_type,
                                    training_df |-> training_df],
                        ret |-> out.ret, forecast |-> out.forecast,
                        steps |-> out.steps]
    /\ UNCHANGED pipeVars

\* the caller goes on: the call is over
CallerContinues ==
    /\ call # NoCall
    /\ call' = NoCall
    /\ UNCHANGED <<model, model_type, training_df, last_train, analyses,
                   pipeVars>>

Next ==
    \/ NewPredictor
    \/ \E df \in TrainFrames, fit \in FitOutcomes : TrainModel(df, fit)
    \/ \E periods \in Periods, pred \in PredictOutcomes :
          PredictTrend(periods, pred)
    \/ \E records \in RunInputs, periods \in Periods, ext \in Externals :
          Analyze(records, periods, ext.fit, ext.pred)
    \/ CallerContinues

Spec == Init /\ [][Next]_vars

(***************************************************************************)
(* SpecAgg: prepare_data on every input sequence of the bounded universe.  *)
(***************************************************************************)
AggInputs == SeqsUpTo(RecordUniverse, MaxRecords)

InitAgg ==
    /\ InitPredictor
    /\ InitPipeline
    /\ call \in {[op |-> "prepare_data", status |-> "pending", records |-> r]
                    : r \in AggInputs}

PrepareDataCall ==
    /\ call.op = "prepare_data"
    /\ call.status = "pending"
    /\ \E out \in {PrepareData(call.records)} :
           call' = [op |-> "prepare_data", status |-> "returned",
                    records |-> call.records,
                    raised |-> out.raised, ret |-> out.df]
    /\ UNCHANGED <<model, model_type, training_df, last_train, analyses,
                   pipeVars>>

NextAgg == PrepareDataCall

SpecAgg == InitAgg /\ [][NextAgg]_vars

(***************************************************************************)
(* SpecRun: the pipeline runs of one session (main.py, run_pipeline, lines *)
(* 197-252): each run makes a predictor, analyses the records, derives the *)
(* summary, saves the result unless it is an error, and stores result and  *)
(* summary in the session.  An exception ends the run where it is raised.  *)
(* The file and the session outlive the run.  log lists the steps of the   *)
(* run so far; returned is the result as the analysis returned it.         *)
(***************************************************************************)
\* the records of a pipeline run: publish_time is always a string there
PipelineUniverseSeq ==
    [i \in 1..(Len(ScoreSeq) * 2) |->
        Rec("str", (i - 1) \div Len(ScoreSeq), 0,
            ScoreSeq[((i - 1) % Len(ScoreSeq)) + 1])]
    \o <<Rec("bad", NowDay, 1, R(0, 1))>>

\* one input per bag of at most MaxRunRecords records
PipelineInputs ==
    UNION {{[i \in 1..k |-> PipelineUniverseSeq[f[i]]] :
              f \in {g \in [1..k -> 1..Len(PipelineUniverseSeq)] :
                        \A i \in 1..(k - 1) : g[i] <= g[i + 1]}} :
           k \in 0..MaxRunRecords}

\* main.py lines 199-200: TrendPredictor(), then
\* analyze_market_sentiment_trend(analyzed_news) with its default periods=30
StartRun(records, fit, pred) ==
    /\ pc = "idle"
    /\ runs < MaxRuns
    /\ runs' = runs + 1
    /\ \E out \in {AnalyzeOp(NoModel, "prophet", <<>>, "none", records,
                              DefaultPeriods, fit, pred)} :
           /\ model' = out.after.model
           /\ model_type' = out.after.model_type
           /\ training_df' = out.after.training_df
           /\ last_train' = out.after.last_train
           /\ log' = out.steps
           /\ IF out.status = "raised"
              THEN /\ pc' = "aborted"
                   /\ UNCHANGED <<trend_results, returned>>
              ELSE /\ pc' = "analyzed"
                   /\ trend_results' = out.ret
                   /\ returned' = out.ret
    /\ UNCHANGED <<analyses, call, trend_summary, session, file, clock>>

\* main.py line 201: trend_summary = get_trend_summary(trend_results)
Summarize ==
    /\ pc = "analyzed"
    /\ trend_summary' = GetTrendSummaryOp(trend_results, model_type)
    /\ log' = Append(log, "summarize")
    /\ pc' = "summarized"
    /\ UNCHANGED <<model, model_type, training_df, last_train, analyses,
                   call,
                   trend_results, returned, session, file, clock, runs>>

\* main.py lines 202-203: save_prediction_results(trend_results), in no try
Persist(outcome) ==
    /\ pc = "summarized"
    /\ ShouldPersist(trend_results)
    /\ \E out \in {SavePredictionResultsOp(trend_results, file, clock,
                                            outcome)} :
           /\ trend_results' = out.results
           /\ file' = out.file
           /\ log' = Append(log, IF out.raised THEN "persist_raised"
                                 ELSE "persist_ok")
           /\ pc' = IF out.raised THEN "aborted" ELSE "after_save"
    /\ clock' = clock + 1
    /\ UNCHANGED <<model, model_type, training_df, last_train, analyses,
                   call,
                   returned, trend_summary, session, runs>>

\* main.py line 202: an error result is not saved
SkipPersist ==
    /\ pc = "summarized"
    /\ ~ShouldPersist(trend_results)
    /\ pc' = "after_save"
    /\ UNCHANGED <<model, model_type, training_df, last_train, analyses,
                   call,
                   trend_results, returned, trend_summary, session, file,
                   clock, log, runs>>

\* main.py lines 243-252: the charts are drawn from trend_results, then
\* result and summary go into the session
Store ==
    /\ pc = "after_save"
    /\ session' = [trend_results |-> trend_results,
                   trend_summary |-> trend_summary]
    /\ log' = Append(log, "store")
    /\ pc' = "done"
    /\ UNCHANGED <<model, model_type, training_df, last_train, analyses,
                   call,
                   trend_results, returned, trend_summary, file, clock, runs>>

\* run_pipeline is left, by its end or by an exception: its locals are gone
Return ==
    /\ pc \in {"done", "aborted"}
    /\ pc' = "idle"
    /\ model' = NoModel
    /\ model_type' = "prophet"
    /\ training_df' = <<>>
    /\ last_train' = "none"
    /\ trend_results' = Nothing
    /\ returned' = Nothing
    /\ trend_summary' = Nothing
    /\ log' = <<>>
    /\ UNCHANGED <<analyses, call, session, file, clock, runs>>

NextRun ==
    \/ \E records \in PipelineInputs, ext \in Externals :
          StartRun(records, ext.fit, ext.pred)
    \/ Summarize
    \/ \E outcome \in SaveOutcomes : Persist(outcome)
    \/ SkipPersist
    \/ Store
    \/ Return

SpecRun == Init /\ [][NextRun]_vars

(***************************************************************************)
(* Properties.  call is the call the caller last made; the predictor's     *)
(* fields are those the call left.                                         *)
(***************************************************************************)
\* the fields of the predictor
Instance ==
    [model |-> model, model_type |-> model_type, training_df |-> training_df]

\* the last call took the step
Took(step) ==
    "steps" \in DOMAIN call /\ \E i \in DOMAIN call.steps : call.steps[i] = step

\* analyze_market_sentiment_trend has returned a result
AnalyzeReturned == call.op = "analyze" /\ call.status = "returned"

\* the calendar days the records of the last call fall on
RecordDays == {DateObj(call.records[i]).day : i \in DOMAIN call.records}

\* the scores of the records of the last call that fall on calendar day d
ScoresOn(d) ==
    LET OnDay(rec) == DateObj(rec).day = d
        sel == SelectSeq(call.records, OnDay)
    IN  [i \in 1..Len(sel) |-> sel[i].score]

\* a forecast point: lower <= yhat <= upper, and an interval at least 0.2 wide
PointInBand(row) ==
    /\ RLe(row.yhat_lower, row.yhat)
    /\ RLe(row.yhat, row.yhat_upper)
    /\ RLe(R(2, 10), RSub(row.yhat_upper, row.yhat_lower))

\* C1: when the Prophet fit raises in train_model on a series with at least
\* 2 distinct dates, nothing is raised to the caller: the baseline is built on
\* that series, train_model returns True and model_type becomes "baseline"
\* (called directly, or from analyze_market_sentiment_trend, which then goes
\* on to predict).
C1_FitFailureFallsBackToBaseline ==
    /\ (call.op = "train_model" /\ NUnique(call.df) >= 2
            /\ call.fit = "raises")
        => /\ call.status = "returned"
           /\ call.ret = TRUE
           /\ model_type = "baseline"
           /\ model.kind = "baseline"
           /\ model.history = call.df
           /\ training_df = call.df
    /\ (call.op = "analyze" /\ Cardinality(RecordDays) >= 2
            /\ call.status = "returned" /\ call.fit = "raises")
        => /\ Took("build_baseline")
           /\ Took("predict_trend")
           /\ model_type = "baseline"
           /\ model.kind = "baseline"
           /\ model.history = training_df

C1_Witness ==
    /\ call.op = "train_model"
    /\ call.fit = "raises"
    /\ NUnique(call.df) >= 2
    /\ call.ret = TRUE
    /\ model_type = "baseline"

\* C2: analyze_market_sentiment_trend returns an error result only when there
\* are no observations, fewer than 2 distinct dates, or neither the primary
\* nor the baseline model can be built; a failure of the primary model alone
\* (in fit or in predict) never shows as an error.
C2_OnlyUnrecoverableErrors ==
    (AnalyzeReturned /\ "error" \in DOMAIN call.ret)
        => \/ call.records = <<>>
           \/ Cardinality(RecordDays) < 2
           \/ /\ call.fit = "raises"
              /\ BuildBaselineModel(PrepareData(call.records).df) = NoModel

\* the case of C2 that the code decides otherwise: the fit succeeded on at
\* least 2 dates, predict raised, and the result is an error
C2_PredictFailureSurfaces ==
    /\ AnalyzeReturned
    /\ Cardinality(RecordDays) >= 2
    /\ call.fit = "ok"
    /\ Took("prophet_predict_raised")
    /\ call.ret = [error |-> ErrPredictFailed]

\* C3: with zero observations analyze_market_sentiment_trend returns the
\* no-data error with data_points = 0 and calls neither train_model nor
\* predict_trend: no model is built, no forecast is made.
C3_NoObservations ==
    (call.op = "analyze" /\ call.records = <<>>)
        => /\ call.status = "returned"
           /\ call.ret = [error |-> ErrNoData, data_points |-> 0]
           /\ call.steps = <<"prepare_data">>
           /\ call.forecast = <<>>
           /\ Instance = call.before

C3_Witness ==
    /\ AnalyzeReturned
    /\ call.records = <<>>
    /\ call.ret.data_points = 0

\* C4: when the observations all fall on one calendar day (a series with
\* fewer than 2 distinct dates), analyze_market_sentiment_trend ends with the
\* "model training failed" error and data_points = 1, the length of the
\* series; neither model is fitted and no forecast is made.
C4_SingleDate ==
    (AnalyzeReturned /\ Cardinality(RecordDays) = 1)
        => /\ call.ret = [error |-> ErrTrainFailed, data_points |-> 1]
           /\ call.steps = <<"prepare_data", "train_model">>
           /\ call.forecast = <<>>
           /\ Instance = call.before

C4_Witness ==
    /\ AnalyzeReturned
    /\ Len(call.records) >= 2
    /\ Cardinality(RecordDays) = 1
    /\ call.ret.error = ErrTrainFailed

\* C5: for every sequence of records, whatever their publish_time,
\* analyze_market_sentiment_trend returns a result: no exception leaves it.
C5_NoExceptionEscapes ==
    call.op = "analyze" => call.status = "returned"

\* the case of C5 that the code decides otherwise: prepare_data raised and
\* the exception left analyze_market_sentiment_trend
C5_PrepareDataRaises ==
    /\ call.op = "analyze"
    /\ call.status = "raised"
    /\ call.steps = <<"prepare_data_raised">>

\* C6: every error result of analyze_market_sentiment_trend has an "error"
\* string and an integer "data_points", and has no "predictions".
C6_ErrorResultShape ==
    (AnalyzeReturned /\ "error" \in DOMAIN call.ret)
        => /\ call.ret.error \in {ErrNoData, ErrTrainFailed, ErrPredictFailed}
           /\ "data_points" \in DOMAIN call.ret
           /\ call.ret.data_points \in Nat
           /\ "predictions" \notin DOMAIN call.ret

\* the case of C6 that the code decides otherwise: the error result of a
\* failed prediction has no data_points
C6_PredictErrorWithoutDataPoints ==
    /\ AnalyzeReturned
    /\ "error" \in DOMAIN call.ret
    /\ call.ret.error = ErrPredictFailed
    /\ "data_points" \notin DOMAIN call.ret

\* C7: every result of analyze_market_sentiment_trend that is no error has a
\* model_type of "prophet" or "baseline" that names the model which made the
\* forecast, a trend_direction of positive, negative or neutral, and a
\* confidence between 0 and 1 inclusive.
C7_SuccessResultShape ==
    (AnalyzeReturned /\ "error" \notin DOMAIN call.ret)
        => /\ call.ret.model_type \in {"prophet", "baseline"}
           /\ call.ret.model_type = "prophet" <=> Took("prophet_predict_ok")
           /\ call.ret.model_type = "baseline"
                 <=> Took("forecast_with_baseline_ok")
           /\ call.ret.model_type = model.kind
           /\ call.ret.trend_direction \in {"positive", "negative", "neutral"}
           /\ RLe(RInt(0), call.ret.confidence)
           /\ RLe(call.ret.confidence, RInt(1))

\* a success whose forecast interval is wider than 2: the confidence is 0
C7_Witness ==
    /\ AnalyzeReturned
    /\ "error" \notin DOMAIN call.ret
    /\ call.ret.model_type = "prophet"
    /\ \E i \in DOMAIN call.forecast :
          RLt(RInt(2), RSub(call.forecast[i].yhat_upper,
                            call.forecast[i].yhat_lower))
    /\ call.ret.confidence = RInt(0)

\* C8: in the series prepare_data returns, the value of a calendar date that
\* has observations is the arithmetic mean of the scores of all of them,
\* whatever their time of day and their order.
C8_DailyValueIsMeanOfScores ==
    (call.op = "prepare_data" /\ call.status = "returned" /\ ~call.raised)
        => \A i \in DOMAIN call.ret :
              ScoresOn(call.ret[i].ds) # <<>>
                  => call.ret[i].y = RMean(ScoresOn(call.ret[i].ds))

\* the case of C8 that the code decides otherwise: a date whose value is not
\* the mean of its scores
C8_MeanOfMeans ==
    /\ call.op = "prepare_data"
    /\ call.status = "returned"
    /\ ~call.raised
    /\ \E i \in DOMAIN call.ret :
          /\ Len(ScoresOn(call.ret[i].ds)) = 3
          /\ call.ret[i].y # RMean(ScoresOn(call.ret[i].ds))

\* C9: every non-empty series prepare_data returns has its dates ascending,
\* and each calendar day from the first observed to the last exactly once,
\* and no other day.
C9_ContiguousDailyGrid ==
    (call.op = "prepare_data" /\ call.status = "returned" /\ ~call.raised
        /\ call.ret # <<>>)
        => LET lo == CHOOSE d \in RecordDays : \A e \in RecordDays : d <= e
               hi == CHOOSE d \in RecordDays : \A e \in RecordDays : e <= d
           IN  /\ \A d \in lo..hi :
                     Cardinality({i \in DOMAIN call.ret : call.ret[i].ds = d})
                         = 1
               /\ \A i \in DOMAIN call.ret : call.ret[i].ds \in lo..hi
               /\ \A i, j \in DOMAIN call.ret :
                     i < j => call.ret[i].ds < call.ret[j].ds

\* a series with a day nothing was observed on, and a day observed twice
C9_Witness ==
    /\ call.op = "prepare_data"
    /\ call.status = "returned"
    /\ ~call.raised
    /\ \E i \in DOMAIN call.ret : ScoresOn(call.ret[i].ds) = <<>>
    /\ \E i \in DOMAIN call.ret : Len(ScoresOn(call.ret[i].ds)) = 2

ForecastMade ==
    /\ call.op \in {"predict_trend", "analyze"}
    /\ call.status = "returned"
    /\ "error" \notin DOMAIN call.ret

\* the horizon the last call asked for: 30 when it gave none
RequestedHorizon ==
    IF call.periods = None THEN DefaultPeriods ELSE call.periods

\* the last 7 rows of the forecast frame of the last call, or all of them
LastSeven ==
    LET len == Len(call.forecast)
    IN  IF len <= 7 THEN call.forecast
        ELSE [i \in 1..7 |-> call.forecast[len - 7 + i]]

\* the slope of the least-squares line through (0, ys[1]), (1, ys[2]), ...:
\* (n * sum(x y) - sum(x) sum(y)) / (n * sum(x x) - sum(x)^2)
LeastSquaresSlope(ys) ==
    LET n == Len(ys)
        sx == RInt((n * (n - 1)) \div 2)
        sxx == RInt(((n - 1) * n * (2 * n - 1)) \div 6)
        Slope(sy, sxy) ==
            RDiv(RSub(RMul(RInt(n), sxy), RMul(sx, sy)),
                 RSub(RMul(RInt(n), sxx), RMul(sx, sx)))
    IN  Slope(RSum(ys), RSum([i \in 1..n |-> RMul(RInt(i - 1), ys[i])]))

\* the slope of the point estimates of the last 7 forecast rows
RecentSlope == LeastSquaresSlope([i \in 1..Len(LastSeven) |-> LastSeven[i].yhat])

\* 1 - avg_width / 2 over the last 7 forecast rows, held to [0, 1]
ClampedConfidence ==
    LET Clamped(raw) ==
            IF RLt(raw, RInt(0)) THEN RInt(0)
            ELSE IF RLt(RInt(1), raw) THEN RInt(1) ELSE raw
        widths == [i \in 1..Len(LastSeven) |->
                      RSub(LastSeven[i].yhat_upper, LastSeven[i].yhat_lower)]
    IN  Clamped(RSub(RInt(1), RDiv(RMean(widths), RInt(2))))

\* C11: a successful result for a requested horizon N (30 when none is given)
\* has exactly N predictions, one for each of the N calendar days after the
\* last date of the historical series, in ascending order.
C11_OnePredictionPerRequestedDay ==
    (AnalyzeReturned /\ "error" \notin DOMAIN call.ret)
        => LET hist == call.ret.historical_data
               preds == call.ret.predictions
           IN  /\ Len(preds) = RequestedHorizon
               /\ \A i \in DOMAIN preds : preds[i].ds = hist[Len(hist)].ds + i

\* the case of C11 that the code decides otherwise: a horizon of 0 is asked
\* for and the result has the 30 predictions of the default
C11_ZeroHorizonGivesDefault ==
    /\ AnalyzeReturned
    /\ "error" \notin DOMAIN call.ret
    /\ call.periods = 0
    /\ call.ret.forecast_periods = 0
    /\ Len(call.ret.predictions) = DefaultPeriods

\* C12: the trend direction is positive when the least-squares slope of the
\* point estimates of the last 7 forecast points (all, if fewer) is above
\* 0.01, negative when it is below -0.01, neutral otherwise, a slope of
\* exactly 0.01 or -0.01 included, and neutral for fewer than 2 points.
C12_DirectionFromRecentSlope ==
    ForecastMade
        => call.ret.trend_direction =
              IF Len(call.forecast) < 2 THEN "neutral"
              ELSE IF RLt(R(1, 100), RecentSlope) THEN "positive"
              ELSE IF RLt(RecentSlope, R(-1, 100)) THEN "negative"
              ELSE "neutral"

\* a forecast whose recent slope is exactly 0.01: neutral
C12_Witness ==
    /\ ForecastMade
    /\ Len(call.forecast) > 7
    /\ RecentSlope = R(1, 100)
    /\ call.ret.trend_direction = "neutral"

\* C13 as stated: the confidence equals clamp(1 - avg_width / 2, 0, 1) over
\* the last 7 forecast points.
C13_ConfidenceIsClampedValue ==
    ForecastMade => call.ret.confidence = ClampedConfidence

\* C13: the confidence is clamp(1 - avg_width / 2, 0, 1) over the last 7
\* forecast points rounded to 3 decimals: a multiple of 0.001 at most 0.0005
\* from the clamped value, so a narrower band never gets a lower confidence.
C13_ConfidenceIsRoundedClampedValue ==
    ForecastMade
        => /\ RMul(call.ret.confidence, RInt(1000)).d = 1
           /\ RLe(RSub(call.ret.confidence, ClampedConfidence), R(1, 2000))
           /\ RLe(RSub(ClampedConfidence, call.ret.confidence), R(1, 2000))
           /\ RLe(RInt(0), call.ret.confidence)
           /\ RLe(call.ret.confidence, RInt(1))

\* a forecast whose clamped value is no multiple of 0.001
C13_Witness ==
    /\ ForecastMade
    /\ call.ret.model_type = "baseline"
    /\ call.ret.confidence # ClampedConfidence
    /\ RLt(RInt(0), call.ret.confidence)

(***************************************************************************)
(* Properties of the pipeline runs.                                        *)
(***************************************************************************)
\* the run has taken the step
Logged(step) == \E i \in DOMAIN log : log[i] = step

\* the dict has every key of the original, with the original's value
Keeps(results, original) ==
    \A k \in DOMAIN original : k \in DOMAIN results /\ results[k] = original[k]

\* the stage of a step: aggregate 1, fit 2, forecast 3, summarize 4,
\* persist 5, what follows 6
Stage(step) ==
    CASE step \in {"prepare_data", "prepare_data_raised"} -> 1
      [] step \in {"train_model", "prophet_fit_ok", "prophet_fit_raised",
                   "build_baseline"} -> 2
      [] step \in {"predict_trend", "prophet_predict_ok",
                   "prophet_predict_raised", "forecast_with_baseline_ok",
                   "forecast_with_baseline_raised"} -> 3
      [] step = "summarize" -> 4
      [] step \in {"persist_ok", "persist_raised"} -> 5
      [] OTHER -> 6

\* the JSON text holds the result and the time stamp, and nothing else
HoldsExactly(text, original, stamp) ==
    /\ DOMAIN text = DOMAIN original \cup {"generated_at"}
    /\ text.generated_at = stamp
    /\ \A k \in DOMAIN original \ {"predictions", "historical_data"} :
          text[k] = original[k]
    /\ \A k \in DOMAIN original \cap {"predictions", "historical_data"} :
          /\ Len(text[k]) = Len(original[k])
          /\ \A i \in DOMAIN original[k] :
                /\ text[k][i].ds = [str |-> original[k][i].ds]
                /\ text[k][i] = [original[k][i] EXCEPT !.ds = text[k][i].ds]

\* C14: when save_prediction_results fails with a write error, the result of
\* the run is neither changed nor lost: the run still has it, and the session
\* holds it and its summary for what comes after.
C14_FailedSaveKeepsResult ==
    (pc = "aborted" /\ Logged("persist_raised"))
        => /\ Keeps(trend_results, returned)
           /\ Keeps(session.trend_results, returned)
           /\ session.trend_summary = trend_summary

\* the case of C14 that the code decides otherwise: the save raised, the run
\* ended there, and the session has nothing of the run
C14_ResultDiscarded ==
    /\ pc = "aborted"
    /\ Logged("persist_raised")
    /\ "error" \notin DOMAIN returned
    /\ DOMAIN session.trend_results = {}
    /\ DOMAIN session.trend_summary = {}

\* C15: the result analyze_market_sentiment_trend returned is not modified
\* by anything the run does after it: summary, persistence, charts, session.
C15_ResultNeverModified ==
    pc \in {"analyzed", "summarized", "after_save", "done", "aborted"}
        => trend_results = returned

\* the case of C15 that the code decides otherwise: the save has added
\* generated_at to the result, which then went into the session
C15_StampedBySave ==
    /\ pc = "done"
    /\ "generated_at" \notin DOMAIN returned
    /\ "generated_at" \in DOMAIN trend_results
    /\ Keeps(session.trend_results, trend_results)

\* C16: a run takes its steps in the order aggregate, fit, forecast,
\* summarize, persist; the summary is derived before the result is
\* persisted; a run persists at most once, and never an error result.
C16_RunOrder ==
    /\ \A i, j \in DOMAIN log : i < j => Stage(log[i]) <= Stage(log[j])
    /\ Cardinality({i \in DOMAIN log : Stage(log[i]) = 5}) <= 1
    /\ Cardinality({i \in DOMAIN log : Stage(log[i]) = 4}) <= 1
    /\ (\E i \in DOMAIN log : Stage(log[i]) = 5)
          => /\ Logged("summarize")
             /\ Logged("predict_trend")
             /\ "error" \notin DOMAIN returned
    /\ Logged("summarize") => log[1] = "prepare_data"
    /\ Logged("predict_trend") => Logged("train_model")
    /\ (pc \in {"after_save", "done"} /\ "error" \notin DOMAIN returned)
          => Logged("persist_ok")
    /\ (pc \in {"after_save", "done"} /\ "error" \in DOMAIN returned)
          => "generated_at" \notin DOMAIN trend_results

\* a second run that went through every stage
C16_Witness ==
    /\ pc = "done"
    /\ runs = 2
    /\ Logged("build_baseline")
    /\ Logged("summarize")
    /\ Logged("persist_ok")

\* C17: each successful save leaves in the file exactly the result it saved,
\* stamped with generated_at, whatever the file held; and nothing but a save
\* changes the file.  So after any sequence of successful saves the file
\* holds the last saved result and nothing of the earlier ones.
C17_FileHoldsLastSave ==
    [][/\ (pc = "summarized" /\ pc' = "after_save"
              /\ "error" \notin DOMAIN returned)
          => /\ file'.state = "written"
             /\ HoldsExactly(file'.text, returned, GeneratedAt(clock))
       /\ file' # file => pc = "summarized" /\ pc' \in {"after_save", "aborted"}
      ]_vars

\* a second successful save, over the file of the first
C17_Witness ==
    /\ pc = "after_save"
    /\ Logged("persist_ok")
    /\ "generated_at" \in DOMAIN session.trend_results
    /\ file.state = "written"
    /\ file.text.generated_at # session.trend_results.generated_at
    /\ file.text.trend_direction # session.trend_results.trend_direction

\* C18: the summary of a result with an "error" key is status "error" with
\* the error as message; of any other result it is status "success" with the
\* result's trend_direction, confidence, data_points, forecast_periods and
\* model_type and the recommendation of the direction, and no message.
C18_SummaryOfResult ==
    Logged("summarize")
        => IF "error" \in DOMAIN returned
           THEN trend_summary = [status |-> "error", message |-> returned.error]
           ELSE /\ DOMAIN trend_summary =
                      {"status", "trend_direction", "confidence",
                       "recommendation", "data_points", "forecast_periods",
                       "model_type"}
                /\ trend_summary.status = "success"
                /\ \A k \in {"trend_direction", "confidence", "data_points",
                             "forecast_periods", "model_type"} :
                      trend_summary[k] = returned[k]
                /\ trend_summary.recommendation =
                      CASE returned.trend_direction = "positive" -> RecPositive
                        [] returned.trend_direction = "negative" -> RecNegative
                        [] OTHER -> RecNeutral

\* the summary of a result with a negative trend
C18_Witness ==
    /\ Logged("summarize")
    /\ "error" \notin DOMAIN returned
    /\ returned.trend_direction = "negative"
    /\ trend_summary.recommendation = RecNegative

\* C19: a record whose publish_time does not parse as a date does not fail
\* the batch in prepare_data: a series is returned, the record is in it under
\* the day of processing, and every other record under its own day.
C19_BadDateDoesNotFailBatch ==
    (/\ call.op = "prepare_data"
     /\ call.status = "returned"
     /\ \E i \in DOMAIN call.records : call.records[i].kind = "bad"
     /\ \A i \in DOMAIN call.records : call.records[i].kind # "obj")
        => /\ ~call.raised
           /\ \E j \in DOMAIN call.ret : call.ret[j].ds = NowDay
           /\ \A i \in DOMAIN call.records :
                 LET rec == call.records[i]
                     day == IF rec.kind = "bad" THEN NowDay ELSE rec.day
                     alone == \A k \in DOMAIN call.records :
                                 k # i => DateObj(call.records[k]).day # day
                 IN  \E j \in DOMAIN call.ret :
                        /\ call.ret[j].ds = day
                        /\ alone => call.ret[j].y = rec.score

\* a batch of a record that does not parse and two records of an earlier day
C19_Witness ==
    /\ call.op = "prepare_data"
    /\ call.status = "returned"
    /\ ~call.raised
    /\ Len(call.records) = 3
    /\ \E i \in DOMAIN call.records : call.records[i].kind = "bad"
    /\ Cardinality({i \in DOMAIN call.records :
                       call.records[i].kind = "str"
                       /\ call.records[i].day = 0}) = 2
    /\ Len(call.ret) = NowDay + 1

SeriesReturned ==
    /\ call.op = "prepare_data"
    /\ call.status = "returned"
    /\ ~call.raised
    /\ call.ret # <<>>

\* the timestamps of the records of the last call on calendar day d
TimesOn(d) ==
    {DateObj(call.records[i]) :
        i \in {j \in DOMAIN call.records : DateObj(call.records[j]).day = d}}

\* the mean score of the records of the last call at timestamp ts
MeanAt(ts) ==
    LET At(rec) == DateObj(rec) = ts
        sel == SelectSeq(call.records, At)
    IN  RMean([i \in 1..Len(sel) |-> sel[i].score])

\* the per-day mean of an observed day d as the aggregation gives it: over
\* the timestamps of the day, the mean of the mean score of each (the mean of
\* the scores of the day when its records share one timestamp)
PerDayMean(d) ==
    RMean(Ys(SortByDs({[ds |-> ts, y |-> MeanAt(ts)] : ts \in TimesOn(d)})))

\* the value on the line from (p, yp) to (q, yq) at day d
OnLine(p, yp, q, yq, d) ==
    RAdd(yp, RMul(RSub(yq, yp), R(d - p, q - p)))

\* C21: in the series prepare_data returns, every observed date keeps its
\* per-day mean, every unobserved day lies strictly between two observed
\* dates and has the value linearly interpolated between its nearest
\* observed neighbours, and no day lies outside the observed range.
C21_InterpolatedBetweenNeighbours ==
    SeriesReturned
        => \A i \in DOMAIN call.ret :
              LET d == call.ret[i].ds
                  before == {e \in RecordDays : e < d}
                  after == {e \in RecordDays : e > d}
              IN  IF d \in RecordDays
                  THEN call.ret[i].y = PerDayMean(d)
                  ELSE /\ before # {}
                       /\ after # {}
                       /\ LET p == CHOOSE e \in before :
                                      \A f \in before : f <= e
                              q == CHOOSE e \in after : \A f \in after : e <= f
                          IN  call.ret[i].y =
                                 OnLine(p, PerDayMean(p), q, PerDayMean(q), d)

\* observations on days 0, 1 and MaxAggDay, the last two with different
\* means: the days between take the values on the line between those two
C21_Witness ==
    /\ SeriesReturned
    /\ RecordDays = {0, 1, MaxAggDay}
    /\ Len(call.ret) = MaxAggDay + 1
    /\ call.ret[1].y = R(1, 10)
    /\ call.ret[2].y = R(0, 1)
    /\ call.ret[MaxAggDay + 1].y = R(1, 10)
    /\ call.ret[3].y = R(1, 30)
    /\ call.ret[4].y = R(2, 30)

(***************************************************************************)
(* Properties of the baseline forecast (Spec).                             *)
(***************************************************************************)
\* the last call made a forecast with the baseline model, which is the
\* stored model
BaselineForecastMade ==
    /\ call.op \in {"predict_trend", "analyze"}
    /\ Took("forecast_with_baseline_ok")

\* the horizon the forecast of the last call was made for
Horizon ==
    IF call.periods = None \/ call.periods = 0 THEN DefaultPeriods
    ELSE call.periods

\* the values of the history of the stored baseline model
HistoryYs == [i \in 1..Len(model.history) |-> model.history[i].y]

\* the ordinary-least-squares line of the history against 0..L-1
OLSSlope == LeastSquaresSlope(HistoryYs)

OLSIntercept ==
    LET L == Len(HistoryYs)
    IN  RDiv(RSub(RSum(HistoryYs),
                  RMul(OLSSlope, RInt((L * (L - 1)) \div 2))),
             RInt(L))

\* the value of the ordinary-least-squares line at time index x
OLSLine(x) == RAdd(OLSIntercept, RMul(OLSSlope, RInt(x)))

\* C22: in the baseline forecast with a history of length L and horizon N,
\* the k-th future point (k = 1..N) has the point estimate
\* intercept + slope * (L + k - 1) and the date k days after the last
\* historical date, intercept and slope being the ordinary-least-squares fit
\* of the history against the time index 0..L-1.
C22_FuturePointOnFittedLine ==
    BaselineForecastMade
        => LET L == Len(model.history)
               preds == call.ret.predictions
           IN  /\ model.slope = OLSSlope
               /\ model.intercept = OLSIntercept
               /\ Len(preds) = Horizon
               /\ \A k \in DOMAIN preds :
                     /\ preds[k].yhat = OLSLine(L + k - 1)
                     /\ preds[k].ds = model.history[L].ds + k

\* a baseline forecast of 2 days on a history of 3 days that is on no line
C22_Witness ==
    /\ BaselineForecastMade
    /\ Len(model.history) = 3
    /\ model.residual_std # RInt(0)
    /\ model.slope # RInt(0)
    /\ Len(call.ret.predictions) = 2

\* the history of the stored baseline model lies on one line
PerfectlyLinear ==
    \A i \in DOMAIN HistoryYs :
        HistoryYs[i] = OnLine(0, HistoryYs[1], 1, HistoryYs[2], i - 1)

\* C23: for a history on a line without noise (y = 2x + 1 over the time
\* index) the future point estimates of the baseline lie on the same line,
\* residual_std is 0, and the margin is the floor 0.1, not 0.
C23_LinearHistoryGetsFloorMargin ==
    (BaselineForecastMade /\ PerfectlyLinear)
        => /\ model.residual_std = RInt(0)
           /\ \A k \in DOMAIN call.ret.predictions :
                 call.ret.predictions[k].yhat =
                    OnLine(0, HistoryYs[1], 1, HistoryYs[2],
                           Len(HistoryYs) + k - 1)
           /\ \A i \in DOMAIN call.forecast :
                 /\ RSub(call.forecast[i].yhat_upper, call.forecast[i].yhat)
                        = R(1, 10)
                 /\ RSub(call.forecast[i].yhat, call.forecast[i].yhat_lower)
                        = R(1, 10)

\* a forecast on the history y = 2x + 1: the next day continues the line
C23_Witness ==
    /\ BaselineForecastMade
    /\ model.history = LinearFrame
    /\ Len(call.ret.predictions) = 2
    /\ call.ret.predictions[1].yhat = RInt(2 * Len(LinearFrame) + 1)
    /\ call.ret.predictions[2].yhat = RInt(2 * Len(LinearFrame) + 3)
    /\ call.ret.predictions[1].yhat_lower = R(20 * Len(LinearFrame) + 9, 10)

\* C24: the combined forecast of the baseline is the fit of the history, one
\* point per historical day in date order, followed by the N future points:
\* its dates are consecutive days, every row has the shape ds, yhat,
\* yhat_lower, yhat_upper, and direction and confidence are computed over
\* this combined sequence.
C24_CombinedForecast ==
    BaselineForecastMade
        => LET L == Len(model.history)
               fc == call.forecast
               preds == call.ret.predictions
           IN  /\ Len(fc) = L + Len(preds)
               /\ Len(preds) = Horizon
               /\ \A i \in 1..L :
                     /\ fc[i].ds = model.history[i].ds
                     /\ fc[i].yhat = OLSLine(i - 1)
               /\ \A k \in DOMAIN preds : fc[L + k] = preds[k]
               /\ \A i \in 1..(Len(fc) - 1) : fc[i + 1].ds = fc[i].ds + 1
               /\ \A i \in DOMAIN fc :
                     DOMAIN fc[i] = {"ds", "yhat", "yhat_lower", "yhat_upper"}
               /\ call.ret.trend_direction =
                      IF RLt(R(1, 100), RecentSlope) THEN "positive"
                      ELSE IF RLt(RecentSlope, R(-1, 100)) THEN "negative"
                      ELSE "neutral"
               /\ RLe(RSub(call.ret.confidence, ClampedConfidence),
                      R(1, 2000))
               /\ RLe(RSub(ClampedConfidence, call.ret.confidence),
                      R(1, 2000))

\* a combined forecast whose last 7 rows hold history and future
C24_Witness ==
    /\ BaselineForecastMade
    /\ Len(model.history) = 3
    /\ Len(call.ret.predictions) = 2
    /\ Len(call.forecast) = 5
    /\ call.ret.trend_direction = "negative"

\* C25: in every successful result of analyze_market_sentiment_trend,
\* whatever the periods argument (0 and None included), forecast_periods is
\* the number of entries of predictions.
C25_ForecastPeriodsCountsPredictions ==
    (AnalyzeReturned /\ "error" \notin DOMAIN call.ret)
        => call.ret.forecast_periods = Len(call.ret.predictions)

\* the case of C25 that the code decides otherwise: the horizon None is
\* reported as it was passed, with the 30 predictions of the default
C25_NoneHorizonReported ==
    /\ AnalyzeReturned
    /\ "error" \notin DOMAIN call.ret
    /\ call.periods = None
    /\ call.ret.forecast_periods = None
    /\ Len(call.ret.predictions) = DefaultPeriods

\* C26: on one TrendPredictor, after any calls of train_model and
\* predict_trend, when the most recent train_model returned False,
\* predict_trend returns an error result, never a forecast of a model an
\* earlier training left.
C26_NoForecastAfterFailedTraining ==
    (call.op = "predict_trend" /\ last_train = "False")
        => "error" \in DOMAIN call.ret

\* the case of C26 that the code decides otherwise: the last training
\* returned False and predict_trend returns the forecast of the model of an
\* earlier training
C26_StaleModelForecast ==
    /\ call.op = "predict_trend"
    /\ last_train = "False"
    /\ model.kind \in {"prophet", "baseline"}
    /\ "error" \notin DOMAIN call.ret
    /\ call.ret.predictions # <<>>

C28_DirectionIsClassOfFittedSlope ==
    BaselineForecastMade
        => /\ Horizon >= 1
           /\ call.ret.trend_direction =
                  IF RLt(R(1, 100), OLSSlope) THEN "positive"
                  ELSE IF RLt(OLSSlope, R(-1, 100)) THEN "negative"
                  ELSE "neutral"
           /\ \A i \in DOMAIN LastSeven :
                 LastSeven[i].yhat =
                    OLSLine(Len(call.forecast) - Len(LastSeven) + i - 1)

\* a forecast of 1 day on a history of 3 days that is on no line: the last
\* 7 points hold the fit of the history
C28_Witness ==
    /\ BaselineForecastMade
    /\ call.periods = 1
    /\ Len(model.history) = 3
    /\ ~PerfectlyLinear
    /\ call.ret.trend_direction = "positive"
    /\ RLt(OLSSlope, RInt(1))

\* clamp(1 - max(1.96 * residual_std, 0.1), 0, 1) of the stored baseline
BaselineClamped ==
    LET Larger(a, b) == IF RLt(a, b) THEN b ELSE a
        Clamped(raw) ==
            IF RLt(raw, RInt(0)) THEN RInt(0)
            ELSE IF RLt(RInt(1), raw) THEN RInt(1) ELSE raw
    IN  Clamped(RSub(RInt(1),
                     Larger(RMul(R(196, 100), model.residual_std),
                            R(1, 10))))

\* C29: when the forecast is the baseline's, the confidence is
\* clamp(1 - max(1.96 * residual_std, 0.1), 0, 1) rounded to 3 decimals, and
\* so never above 0.9.
C29_BaselineConfidence ==
    BaselineForecastMade
        => /\ RMul(call.ret.confidence, RInt(1000)).d = 1
           /\ RLe(RSub(call.ret.confidence, BaselineClamped), R(1, 2000))
           /\ RLe(RSub(BaselineClamped, call.ret.confidence), R(1, 2000))
           /\ RLe(call.ret.confidence, R(9, 10))

\* a baseline whose margin is 1.96 residual_std, above the floor: a
\* confidence strictly between 0 and 0.9
C29_Witness ==
    /\ BaselineForecastMade
    /\ RLt(R(1, 10), RMul(R(196, 100), model.residual_std))
    /\ RLt(RInt(0), call.ret.confidence)
    /\ RLt(call.ret.confidence, R(9, 10))
    /\ call.ret.confidence # BaselineClamped

\* C30: in every successful result data_points is the length of
\* historical_data, the number of calendar days from the first observed date
\* to the last (interpolated days included), not the number of observations
\* or of observed dates.
C30_DataPointsIsGridLength ==
    (AnalyzeReturned /\ "error" \notin DOMAIN call.ret)
        => LET lo == CHOOSE d \in RecordDays : \A e \in RecordDays : d <= e
               hi == CHOOSE d \in RecordDays : \A e \in RecordDays : e <= d
           IN  /\ call.ret.data_points = Len(call.ret.historical_data)
               /\ call.ret.data_points = hi - lo + 1

\* 3 observations on 2 dates with a day between them: 3 data points, which is
\* the number of days, not of dates
C30_Witness ==
    /\ AnalyzeReturned
    /\ "error" \notin DOMAIN call.ret
    /\ Len(call.records) = 3
    /\ RecordDays = {0, 2}
    /\ call.ret.data_points = 3
    /\ call.ret.historical_data[2].y # call.ret.historical_data[1].y

=============================================================================
